---- MODULE Spec2Model ----
(***************************************************************************)
(* Model of src/netatmo.js: the token lifecycle of the netatmo client      *)
(* (authenticate, authenticate_refresh, handleRequestError) and the token  *)
(* gate of its endpoint wrappers.                                          *)
(*                                                                         *)
(* One action is one run-to-completion turn of the Node event loop: a call *)
(* of a public method, the callback of a finished HTTP request, or the     *)
(* firing of a timer.  EventEmitter.emit runs its listeners synchronously, *)
(* so the replay of deferred calls is part of the turn that emits.         *)
(*                                                                         *)
(* Environment: the server answers /oauth2/token as section 6 of the spec  *)
(* describes it (a 200 JSON body carries access_token, a JSON error body   *)
(* carries error), may answer with a body that is not JSON, with or        *)
(* without a content-type header, or not at all.  An observer of the       *)
(* 'error' event is taken to be attached, so emit("error") returns.        *)
(***************************************************************************)
EXTENDS Integers, Sequences, FiniteSets, TLC

\* ------------------------------------------------------------------ bounds
\* Calls the user makes (the constructor, authenticate, the wrappers) and
\* token exchanges started (grant and refresh).
MaxOps == 3
MaxExch == 2

\* ------------------------------------------------------------------ values
\* JavaScript's undefined where a string is expected, and where a number is.
Absent == "undefined"
NoNumber == -1

BearerTokens == {"tokC"}
\* Each instance is given credentials of its own.
ClientId(i) == IF i = "n1" THEN "c1" ELSE "c2"

\* if (v) for a string and for a number.
Truthy(v) == v # Absent
TruthyNumber(n) == n # NoNumber /\ n # 0

DEFAULT_SCOPE == "read_station read_thermostat write_thermostat read_camera read_homecoach"

\* The args object of authenticate; NoArgs is a call without one.  The scope
\* is left to its default; a bearer token comes alone or beside complete
\* credentials.
NoArgs == [none |-> TRUE]
ArgsObjects(i) ==
  [access_token : BearerTokens \cup {Absent},
   client_id : {ClientId(i), Absent},
   client_secret : {"s1", Absent},
   username : {"u1", Absent},
   password : {"p1", Absent},
   scope : {Absent}]
Complete(a) ==
  a.client_id # Absent /\ a.client_secret # Absent /\ a.username # Absent
  /\ a.password # Absent
Empty(a) ==
  a.client_id = Absent /\ a.client_secret = Absent /\ a.username = Absent
  /\ a.password = Absent
Args(i) ==
  {NoArgs} \cup
  {a \in ArgsObjects(i) : a.access_token # Absent => (Complete(a) \/ Empty(a))}

\* Bodies of an HTTP response.
EmptyBody == [kind |-> "empty"]
TextBody == [kind |-> "text"]
ErrorBodies == [kind : {"error"}, shape : {"message", "string"}]

\* The server issues a fresh access token, and maybe a fresh refresh token,
\* with every exchange: they are named after the request they answer.  The
\* lifetime it states, if any, is zero or differs from exchange to exchange.
ExpiresValues(r) == {0, r.id}
TokenBodies(r) ==
  [kind : {"token"},
   access_token : {"tok" \o ToString(r.id)},
   expires_in : ExpiresValues(r) \cup {NoNumber},
   refresh_token : {"rt" \o ToString(r.id), Absent}]

\* What the request library hands to a callback: err alone, or a response.
NoResponse == [err |-> TRUE]
Response(statusCode, ctype, body) ==
  [err |-> FALSE, statusCode |-> statusCode, ctype |-> ctype, body |-> body]
BadResponses ==
  {Response(401, "json", b) : b \in ErrorBodies}
  \cup {Response(401, "text", TextBody), Response(401, Absent, TextBody)}
Responses(r) ==
  {NoResponse} \cup BadResponses \cup {Response(200, "text", TextBody)}
  \cup {Response(200, "json", b) : b \in TokenBodies(r)}

\* The endpoint wrappers: one without required options, one with.  The
\* options of getStationsData are all optional: any are complete.
Methods == {"getStationsData", "setSyncSchedule"}
Options == {"complete", "incomplete"}

\* Bodies and responses of the API endpoints.
DataBody == [kind |-> "data"]
ApiResponses ==
  {NoResponse, Response(200, "json", DataBody), Response(401, Absent, TextBody)}

\* The instances of the client this model constructs.
Instances == {"n1", "n2"}

\* ------------------------------------------------------------------- state
VARIABLES
  access_token, username, password, client_id, client_secret, scope, expires_in,
  insts, constructed, listeners, requests, timers,
  step, fired, nCalls, nAuth, lastAuth, exchanges, nReady

globals == <<access_token, username, password, client_id, client_secret, scope, expires_in>>
emitter == <<insts, constructed, listeners>>
pending == <<requests, timers>>
history == <<step, fired, nCalls, nAuth, lastAuth, exchanges, nReady>>
vars == <<globals, emitter, pending, history>>

Calls == 1..MaxOps

\* A turn of the event loop: what ran, on what input, and what it did.
Turn(op, i, input, events, issued, armed, callback, thrown, deferred) ==
  [op |-> op, inst |-> i, input |-> input, events |-> events, issued |-> issued,
   armed |-> armed, callback |-> callback, thrown |-> thrown, deferred |-> deferred,
   before |-> access_token]

Event(name, message, detail) == [name |-> name, message |-> message, detail |-> detail]

\* ----------------------------------------------------- handleRequestError
\* JSON.parse of a body: only a JSON text parses.
Parses(body) == body.kind \in {"token", "error", "data"}

BodyTruthy(resp) == ~resp.err /\ resp.body.kind # "empty"

\* The header test of line 39 reads a property of undefined when the response
\* has no content-type header.
HeaderThrows(resp) == BodyTruthy(resp) /\ resp.ctype = Absent

IsJsonResponse(resp) == BodyTruthy(resp) /\ resp.ctype = "json"

\* Lines 40-41: JSON.parse, then error.message || error.
ErrorMessageThrows(resp) ==
  IsJsonResponse(resp) /\ (~Parses(resp.body) \/ resp.body.kind # "error")

ErrorMessage(resp) ==
  IF IsJsonResponse(resp)
    THEN (IF resp.body.shape = "message" THEN "error.message" ELSE "error")
    ELSE IF ~resp.err
      THEN (IF resp.statusCode = 200 THEN "Status code200" ELSE "Status code401")
    ELSE "No response"

\* The events handleRequestError emits: none when it throws on the way.
handleRequestError(resp, message, critical) ==
  IF HeaderThrows(resp) \/ ErrorMessageThrows(resp)
    THEN << >>
    ELSE << Event(IF critical THEN "error" ELSE "warning", message, ErrorMessage(resp)) >>

handleRequestErrorThrows(resp) == HeaderThrows(resp) \/ ErrorMessageThrows(resp)

\* An error branch that takes server errors alone for failures.
IsErrorServerOnly(resp) == resp.err \/ resp.statusCode >= 500

\* An error branch that tests err alone.
IsErrorNoStatus(resp) == resp.err

\* A callback takes the error branch (lines 116, 165, 222).
IsError(resp) == resp.err \/ resp.statusCode # 200

\* --------------------------------------------------------------- the gate
\* A listener of 'authenticated' is the closure of lines 192-194: the wrapper
\* and the arguments of the deferred call.
Listener(c, method, options) == [call |-> c, method |-> method, options |-> options]

\* A gate that lets every call through.
NotAuthenticatedNever(token) == FALSE

\* if (!access_token): the wrapper waits (lines 191, 302 and every wrapper).
NotAuthenticated(token) == ~Truthy(token)

\* The required-options checks of a wrapper (lines 308-331); getStationsData
\* has none.
OptionsRejected(l) == l.method = "setSyncSchedule" /\ l.options = "incomplete"

OptionsError(l) == Event("error", "setSyncSchedule not set.", "")

\* A request: the form it sends, and the closure its callback runs in.  While
\* it is in flight the program holds the callback alone.
Pending(q) == [id |-> q.id, kind |-> q.kind, inst |-> q.inst, closure |-> q.closure]

\* An endpoint request; id tells the requests of one call apart.
ApiRequest(id, i, l, token) ==
  [id |-> id, kind |-> "api", inst |-> i, closure |-> l,
   form |-> [access_token |-> token, options |-> l.options]]

\* An emit that stops after its first listener.
ReplayedFirst(ls, token) == {k \in 1..Len(ls) : k = 1 /\ token # Absent}

\* emit('authenticated') with `token` stored: every listener of the instance
\* runs its wrapper again, in order of registration.  Positions of the
\* listeners whose wrapper gets past the gate:
Replayed(ls, token) == {k \in 1..Len(ls) : ~NotAuthenticated(token)}

\* How many times the replay has run the call of listener k, up to k.
Rank(ls, token, k) ==
  Cardinality({j \in Replayed(ls, token) : j <= k /\ ls[j].call = ls[k].call})

ReplayRequests(i, ls, token) ==
  {ApiRequest(fired[ls[k].call] + Rank(ls, token, k), i, ls[k], token) :
     k \in {j \in Replayed(ls, token) : ~OptionsRejected(ls[j])}}

RECURSIVE ReplayEvents(_, _)
ReplayEvents(ls, token) ==
  IF ls = << >> \/ NotAuthenticated(token) THEN << >>
  ELSE (IF OptionsRejected(Head(ls)) THEN <<OptionsError(Head(ls))>> ELSE << >>)
       \o ReplayEvents(Tail(ls), token)

\* this.on: a listener stays registered after it has run, and a wrapper that
\* runs while the token is absent registers itself once more.
ReplayListeners(ls, token) == IF NotAuthenticated(token) THEN ls \o ls ELSE ls

ReplayFired(ls, token) ==
  [c \in Calls |->
     fired[c] + Cardinality({k \in Replayed(ls, token) : ls[k].call = c})]

\* ------------------------------------------------------------ authenticate
IsArgs(args) == "none" \notin DOMAIN args

\* A chain that never looks at args.access_token.
HasTokenIgnored(args) == FALSE

\* if (args.access_token) (line 69): a bearer token was given.
HasToken(args) == Truthy(args.access_token)

\* A validation chain that tests the fields in another order.
FirstMissingReversed(args) ==
  IF args.password = Absent THEN "password"
  ELSE IF args.username = Absent THEN "username"
  ELSE IF args.client_secret = Absent THEN "client_secret"
  ELSE IF args.client_id = Absent THEN "client_id"
  ELSE Absent

\* The validation chain of lines 74-92.
FirstMissing(args) ==
  IF ~Truthy(args.client_id) THEN "client_id"
  ELSE IF ~Truthy(args.client_secret) THEN "client_secret"
  ELSE IF ~Truthy(args.username) THEN "username"
  ELSE IF ~Truthy(args.password) THEN "password"
  ELSE Absent

NotSet(field) == Event("error", "Authenticate not set.", field)

\* The calls of authenticate that reach the request of line 111: the only
\* ones that keep the callback they are given.
Issues(args) ==
  IsArgs(args) /\ ~HasToken(args) /\ ~Truthy(FirstMissing(args))

\* Lines 94-114: the form is read back from the module variables just set.
GrantRequest(id, i, args, callback) ==
  [id |-> id, kind |-> "grant", inst |-> i, closure |-> [callback |-> callback],
   form |-> [client_id |-> args.client_id, client_secret |-> args.client_secret,
             username |-> args.username, password |-> args.password,
             scope |-> IF Truthy(args.scope) THEN args.scope ELSE DEFAULT_SCOPE,
             grant_type |-> "password"]]

\* Lines 151-156.
RefreshRequest(id, i, refresh_token) ==
  [id |-> id, kind |-> "refresh", inst |-> i, closure |-> [callback |-> FALSE],
   form |-> [grant_type |-> "refresh_token", refresh_token |-> refresh_token,
             client_id |-> client_id, client_secret |-> client_secret]]

\* setTimeout(this.authenticate_refresh.bind(this), expires * 1000, refresh_token);
\* id is the exchange whose response armed it; the timer is due once its
\* delay has passed.
Timer(id, i, expires, refresh_token) ==
  [id |-> id, inst |-> i, delay |-> expires * 1000, due |-> FALSE,
   refresh_token |-> refresh_token]

\* A response read under another field name.
BodyTokenMisread(body) == Absent

\* A response whose refresh_token is stored as the access token.
BodyTokenFromRefresh(body) == IF body.kind = "token" THEN body.refresh_token ELSE Absent

BodyToken(body) == IF body.kind = "token" THEN body.access_token ELSE Absent
BodyExpires(body) == IF body.kind = "token" THEN body.expires_in ELSE NoNumber
BodyRefresh(body) == IF body.kind = "token" THEN body.refresh_token ELSE Absent

\* if (body.expires_in) setTimeout(...) (lines 124-127 and 173-175).
Armed(r, body) ==
  IF TruthyNumber(BodyExpires(body))
    THEN {Timer(r.id, r.inst, BodyExpires(body), BodyRefresh(body))}
    ELSE {}

\* A timer that repeats (setInterval).
DisarmNever(t) == timers

\* setTimeout is one-shot: the timer that fires is gone.
Disarm(t) == timers \ {t}

\* The argument of the callback of authenticate (lines 132-135).
CallbackValue(body) ==
  [access_token |-> BodyToken(body),
   expires_in |-> IF BodyExpires(body) = NoNumber THEN NoNumber
                  ELSE BodyExpires(body) * 1000]

\* How many events of a name a turn emitted.
Count(events, name) == Cardinality({k \in 1..Len(events) : events[k].name = name})

\* What a call of authenticate was given, and what an exchange was answered.
AuthKind(args) ==
  IF ~IsArgs(args) THEN "no args"
  ELSE IF args.access_token # Absent THEN "bearer"
  ELSE IF args.client_id = Absent \/ args.client_secret = Absent
          \/ args.username = Absent \/ args.password = Absent THEN "incomplete"
  ELSE "password"

Outcome(resp) ==
  IF resp.err \/ resp.statusCode # 200 \/ resp.body.kind # "token" THEN "failed" ELSE "ok"

nExch == Len(exchanges)

Init ==
  /\ access_token = Absent
  /\ username = Absent
  /\ password = Absent
  /\ client_id = Absent
  /\ client_secret = Absent
  /\ scope = Absent
  /\ expires_in = NoNumber
  /\ insts = {"n1"}
  /\ constructed = {}
  /\ listeners = [i \in insts |-> << >>]
  /\ requests = {}
  /\ timers = {}
  /\ step = Turn("require", Absent, NoArgs, << >>, {}, {}, {}, FALSE, {})
  /\ fired = [c \in Calls |-> 0]
  /\ nCalls = 0
  /\ nAuth = 0
  /\ lastAuth = "none"
  /\ exchanges = << >>
  /\ nReady = [i \in insts |-> 0]

\* authenticate (lines 63-142), called by the constructor or by the user.
authenticate(op, i, args, callback) ==
  /\ nAuth + nCalls < MaxOps
  /\ nAuth' = nAuth + 1
  /\ lastAuth' = AuthKind(args)
  /\ UNCHANGED <<insts, listeners, timers, fired, nCalls, nReady, expires_in>>
  /\ IF ~IsArgs(args) THEN
       /\ step' = Turn(op, i, args, <<Event("error", "Authenticate 'args' not set.", "")>>,
                       {}, {}, {}, FALSE, {})
       /\ UNCHANGED <<access_token, username, password, client_id, client_secret,
                      scope, requests, exchanges>>
     ELSE IF HasToken(args) THEN
       /\ access_token' = args.access_token
       /\ step' = Turn(op, i, args, << >>, {}, {}, {}, FALSE, {})
       /\ UNCHANGED <<username, password, client_id, client_secret, scope,
                      requests, exchanges>>
     ELSE IF Truthy(FirstMissing(args)) THEN
       /\ step' = Turn(op, i, args, <<NotSet(FirstMissing(args))>>,
                       {}, {}, {}, FALSE, {})
       /\ UNCHANGED <<access_token, username, password, client_id, client_secret,
                      scope, requests, exchanges>>
     ELSE
       /\ nExch < MaxExch
       /\ username' = args.username
       /\ password' = args.password
       /\ client_id' = args.client_id
       /\ client_secret' = args.client_secret
       /\ scope' = (IF Truthy(args.scope) THEN args.scope ELSE DEFAULT_SCOPE)
       /\ requests' = requests \cup {Pending(GrantRequest(nExch + 1, i, args, callback))}
       /\ exchanges' = Append(exchanges, [kind |-> "grant", inst |-> i, outcome |-> "pending"])
       /\ step' = Turn(op, i, args, << >>, {GrantRequest(nExch + 1, i, args, callback)},
                       {}, {}, FALSE, {})
       /\ UNCHANGED access_token

\* new netatmo(args, callback) (lines 20-24).
netatmo(i, args, callback) ==
  /\ i \in insts \ constructed
  /\ constructed' = constructed \cup {i}
  /\ authenticate("new", i, args, callback)

\* A later call of authenticate on a constructed instance.
Reauthenticate(i, args, callback) ==
  /\ i \in constructed
  /\ UNCHANGED constructed
  /\ authenticate("authenticate", i, args, callback)

\* The callback of the grant request (lines 115-139), with the replay that
\* emit('authenticated') runs before it returns.
GrantResponse(r, resp) ==
  /\ r \in requests /\ r.kind = "grant"
  /\ exchanges' = [exchanges EXCEPT ![r.id].outcome = Outcome(resp)]
  /\ UNCHANGED <<username, password, client_id, client_secret, scope,
                 insts, constructed, nCalls, nAuth, lastAuth>>
  /\ IF IsError(resp) THEN
       /\ requests' = requests \ {r}
       /\ step' = Turn("grant", r.inst, resp,
                       handleRequestError(resp, "Authenticate error", TRUE),
                       {}, {}, {}, handleRequestErrorThrows(resp), {})
       /\ UNCHANGED <<access_token, expires_in, listeners, timers, fired, nReady>>
     ELSE IF ~Parses(resp.body) THEN
       /\ requests' = requests \ {r}
       /\ step' = Turn("grant", r.inst, resp, << >>, {}, {}, {}, TRUE, {})
       /\ UNCHANGED <<access_token, expires_in, listeners, timers, fired, nReady>>
     ELSE
       LET body == resp.body
           token == BodyToken(body)
           ls == listeners[r.inst]
           issued == ReplayRequests(r.inst, ls, token)
       IN
       /\ access_token' = token
       /\ expires_in' = (IF TruthyNumber(BodyExpires(body))
                           THEN BodyExpires(body) * 1000 ELSE expires_in)
       /\ timers' = timers \cup Armed(r, body)
       /\ nReady' = [nReady EXCEPT ![r.inst] = @ + 1]
       /\ listeners' = [listeners EXCEPT ![r.inst] = ReplayListeners(ls, token)]
       /\ requests' = (requests \ {r}) \cup {Pending(q) : q \in issued}
       /\ fired' = ReplayFired(ls, token)
       /\ step' = Turn("grant", r.inst, resp,
                       <<Event("authenticated", "", "")>> \o ReplayEvents(ls, token),
                       issued, Armed(r, body),
                       IF r.closure.callback THEN {CallbackValue(body)} ELSE {},
                       FALSE, {})

\* The timer fires: authenticate_refresh(refresh_token) issues its request
\* (lines 149-163).
authenticate_refresh(t) ==
  /\ t \in timers
  /\ t.due
  /\ nExch < MaxExch
  /\ timers' = Disarm(t)
  /\ requests' = requests \cup {Pending(RefreshRequest(nExch + 1, t.inst, t.refresh_token))}
  /\ exchanges' = Append(exchanges,
                         [kind |-> "refresh", inst |-> t.inst, outcome |-> "pending"])
  /\ step' = Turn("timer", t.inst, t, << >>,
                  {RefreshRequest(nExch + 1, t.inst, t.refresh_token)}, {}, {}, FALSE, {})
  /\ UNCHANGED <<globals, emitter, fired, nCalls, nAuth, lastAuth, nReady>>

\* The callback of the refresh request (lines 164-178).
RefreshResponse(r, resp) ==
  /\ r \in requests /\ r.kind = "refresh"
  /\ requests' = requests \ {r}
  /\ exchanges' = [exchanges EXCEPT ![r.id].outcome = Outcome(resp)]
  /\ UNCHANGED <<username, password, client_id, client_secret, scope, expires_in,
                 emitter, fired, nCalls, nAuth, lastAuth, nReady>>
  /\ IF IsError(resp) THEN
       /\ step' = Turn("refresh", r.inst, resp,
                       handleRequestError(resp, "Authenticate refresh error", FALSE),
                       {}, {}, {}, handleRequestErrorThrows(resp), {})
       /\ UNCHANGED <<access_token, timers>>
     ELSE IF ~Parses(resp.body) THEN
       /\ step' = Turn("refresh", r.inst, resp, << >>, {}, {}, {}, TRUE, {})
       /\ UNCHANGED <<access_token, timers>>
     ELSE
       /\ access_token' = BodyToken(resp.body)
       /\ timers' = timers \cup Armed(r, resp.body)
       /\ step' = Turn("refresh", r.inst, resp, << >>, {}, Armed(r, resp.body), {}, FALSE, {})

\* An endpoint wrapper called by the user: the gate of lines 191-195 (and of
\* every other wrapper), then the required options, then the request.
Wrapper(i, method, options) ==
  LET l == Listener(nCalls + 1, method, options) IN
  /\ i \in constructed
  /\ nAuth + nCalls < MaxOps
  /\ nCalls' = nCalls + 1
  /\ UNCHANGED <<globals, insts, constructed, timers, nAuth, lastAuth, exchanges, nReady>>
  /\ IF NotAuthenticated(access_token) THEN
       /\ listeners' = [listeners EXCEPT ![i] = Append(@, l)]
       /\ step' = Turn("call", i, l, << >>, {}, {}, {}, FALSE, {l.call})
       /\ UNCHANGED <<requests, fired>>
     ELSE IF OptionsRejected(l) THEN
       /\ fired' = [fired EXCEPT ![l.call] = @ + 1]
       /\ step' = Turn("call", i, l, <<OptionsError(l)>>, {}, {}, {}, FALSE, {})
       /\ UNCHANGED <<listeners, requests>>
     ELSE
       /\ requests' = requests
                      \cup {Pending(ApiRequest(fired[l.call] + 1, i, l, access_token))}
       /\ fired' = [fired EXCEPT ![l.call] = @ + 1]
       /\ step' = Turn("call", i, l, << >>, {ApiRequest(fired[l.call] + 1, i, l, access_token)},
                       {}, {}, FALSE, {})
       /\ UNCHANGED listeners

getStationsData(i) == Wrapper(i, "getStationsData", "complete")

setSyncSchedule(i, options) == Wrapper(i, "setSyncSchedule", options)

\* A callback that drops the stored token when the endpoint turns it down.
ApiResponseEvicts(r, resp) ==
  /\ r \in requests /\ r.kind = "api"
  /\ requests' = requests \ {r}
  /\ access_token' = (IF IsError(resp) THEN Absent ELSE access_token)
  /\ step' = Turn("api", r.inst, resp, << >>, {}, {}, {}, FALSE, {})
  /\ UNCHANGED <<username, password, client_id, client_secret, scope, expires_in,
                 emitter, timers, fired, nCalls, nAuth, lastAuth, exchanges, nReady>>

\* The callback of an endpoint request (lines 221-238, 347-362).
ApiResponse(r, resp) ==
  /\ r \in requests /\ r.kind = "api"
  /\ requests' = requests \ {r}
  /\ step' = Turn("api", r.inst, resp,
                  IF IsError(resp) THEN handleRequestError(resp, r.closure.method, FALSE)
                  ELSE IF ~Parses(resp.body) THEN << >>
                  ELSE <<Event(r.closure.method, "", "")>>,
                  {}, {}, {},
                  IF IsError(resp) THEN handleRequestErrorThrows(resp)
                  ELSE ~Parses(resp.body),
                  {})
  /\ UNCHANGED <<globals, emitter, timers, fired, nCalls, nAuth, lastAuth, exchanges, nReady>>

\* The delay of a timer passes.  The program reads no clock: time shows only
\* in the timers that become due, and a timer that is due may fire late.
Elapse(t) ==
  /\ t \in timers
  /\ ~t.due
  /\ timers' = (timers \ {t}) \cup {[t EXCEPT !.due = TRUE]}
  /\ step' = Turn("elapse", t.inst, t, << >>, {}, {}, {}, FALSE, {})
  /\ UNCHANGED <<globals, emitter, requests, fired, nCalls, nAuth, lastAuth, exchanges, nReady>>

Next ==
  \/ \E i \in Instances : \E args \in Args(i), callback \in BOOLEAN :
       netatmo(i, args, callback)
  \/ \E i \in Instances : \E args \in Args(i), callback \in BOOLEAN :
       Reauthenticate(i, args, callback)
  \/ \E r \in requests : \E resp \in Responses(r) : GrantResponse(r, resp)
  \/ \E t \in timers : authenticate_refresh(t)
  \/ \E r \in requests : \E resp \in Responses(r) : RefreshResponse(r, resp)
  \/ \E i \in Instances : getStationsData(i)
  \/ \E i \in Instances, options \in Options : setSyncSchedule(i, options)
  \/ \E t \in timers : Elapse(t)

Spec == Init /\ [][Next]_vars

\* The same, with the answers to the endpoint requests.
NextApi ==
  \/ Next
  \/ \E r \in requests, resp \in ApiResponses : ApiResponse(r, resp)

SpecApi == Init /\ [][NextApi]_vars

\* ================================================================== claims
IsAuthenticate(t) == t.op \in {"new", "authenticate"}

CredentialFields == <<"client_id", "client_secret", "username", "password">>

MissingFields(args) == {k \in 1..4 : args[CredentialFields[k]] = Absent}

\* The turn was a call of authenticate with password-grant credentials (no
\* access_token) of which at least one is missing.
IncompleteGrant(t) ==
  /\ IsAuthenticate(t)
  /\ IsArgs(t.input)
  /\ t.input.access_token = Absent
  /\ MissingFields(t.input) # {}

\* C1: every call of authenticate with password-grant credentials of which at
\* least one of client_id, client_secret, username, password is missing reports
\* exactly one configuration error, which names the first missing field in
\* that order, and issues no grant request (nothing is sent, stored or armed).
C1_FirstMissingFieldReported ==
  [][IncompleteGrant(step') =>
       LET first == CHOOSE k \in MissingFields(step'.input) :
                      \A j \in MissingFields(step'.input) : k <= j
       IN /\ step'.events = <<Event("error", "Authenticate not set.", CredentialFields[first])>>
          /\ step'.issued = {}
          /\ requests' = requests
          /\ exchanges' = exchanges
          /\ timers' = timers
          /\ UNCHANGED globals]_vars

\* C1 witness: client_secret and password are both missing, and the one error
\* names client_secret.
C1_Witness ==
  /\ IncompleteGrant(step)
  /\ MissingFields(step.input) = {2, 4}
  /\ step.events[1].detail = "client_secret"

\* C2: no endpoint request is dispatched while the access token is absent: a
\* request is sent only with the stored token, which is then present, and a
\* wrapper called while the token is absent sends nothing and only registers
\* its listener.
C2_NoDispatchWithoutToken ==
  [][/\ \A q \in requests' \ requests : q.kind = "api" => access_token' # Absent
     /\ \A q \in step'.issued :
          q.kind = "api" => (q.form.access_token = access_token'
                             /\ q.form.access_token # Absent)
     /\ (step'.op = "call" /\ access_token = Absent) =>
          /\ step'.issued = {}
          /\ requests' = requests
          /\ fired' = fired
          /\ listeners' = [listeners EXCEPT ![step'.inst] = Append(@, step'.input)]]_vars

\* C2 witness: a wrapper was called while the token was absent and waits.
C2_Witness ==
  /\ step.op = "call"
  /\ step.before = Absent
  /\ step.deferred = {step.input.call}
  /\ listeners[step.inst] # << >>

\* C3 (as claimed): over any sequence of operations, repeated calls of
\* authenticate included, a call runs past the gate at most once.
C3_DeferredCallFiresAtMostOnce == \A c \in Calls : fired[c] <= 1

\* The successful grant exchanges of an instance.
GrantsOk(i) ==
  {id \in 1..nExch : exchanges[id] = [kind |-> "grant", inst |-> i, outcome |-> "ok"]}

\* C4: once a grant exchange of an instance has completed with HTTP 200 and an
\* access_token, every call deferred on that instance has run past the gate,
\* and its request, if its options are complete, has been sent.  The replay
\* is part of the turn that handles the response, so nothing is left to
\* happen later; nothing is said of the order of the deferred calls.
C4_DeferredCallsFireAfterGrant ==
  \A i \in insts : \A k \in 1..Len(listeners[i]) :
    GrantsOk(i) # {} =>
      /\ fired[listeners[i][k].call] >= 1
      /\ ~OptionsRejected(listeners[i][k]) =>
           \E q \in requests : q.kind = "api" /\ q.inst = i /\ q.closure = listeners[i][k]

\* C4 witness: two calls were deferred, the grant succeeded, both have fired.
C4_Witness ==
  \E i \in insts :
    /\ Len(listeners[i]) = 2
    /\ GrantsOk(i) # {}
    /\ \A k \in 1..2 : fired[listeners[i][k].call] = 1

\* The turn handled the answer to a grant or to a refresh request.
Answered(t, kind) == t.op = kind

\* The answer was HTTP 200 with a JSON body that carries access_token.
Succeeded(t) == Outcome(t.input) = "ok"

\* C5: each successful grant exchange stores the returned access_token and
\* emits 'authenticated' exactly once, with or without expires_in: the signal
\* has been emitted on an instance as often as grant exchanges of it have
\* succeeded, so no refresh exchange and no other turn emits it; and a wrapper
\* called after the signal runs past the gate at once.
C5_ReadyOncePerGrant ==
  /\ \A i \in insts : nReady[i] = Cardinality(GrantsOk(i))
  /\ (Answered(step, "grant") /\ Succeeded(step)) =>
       /\ access_token = step.input.body.access_token
       /\ Count(step.events, "authenticated") = 1
  /\ ~(Answered(step, "grant") /\ Succeeded(step)) =>
       Count(step.events, "authenticated") = 0
  /\ (step.op = "call" /\ nReady[step.inst] >= 1) =>
       /\ step.deferred = {}
       /\ fired[step.input.call] = 1
       /\ listeners[step.inst] = SelectSeq(listeners[step.inst],
                                           LAMBDA l : l.call # step.input.call)

\* C5 witness: a grant answered without expires_in emitted the signal, and the
\* token is stored.
C5_Witness ==
  /\ Answered(step, "grant") /\ Succeeded(step)
  /\ step.input.body.expires_in = NoNumber
  /\ nReady[step.inst] = 1
  /\ access_token = step.input.body.access_token

\* authenticate was called once, by the constructor, and ended in a
\* configuration error or in a grant exchange that failed.
InitializeFailed ==
  /\ nAuth = 1
  /\ \/ lastAuth \in {"no args", "incomplete"}
     \/ lastAuth = "password" /\ exchanges[1].outcome = "failed"

\* C6: if the one call of authenticate ended in a configuration error or its
\* grant exchange failed, then, as long as authenticate is not called again,
\* 'authenticated' is never emitted, the access token stays absent, and every
\* call made so far stays deferred: none has run past the gate, no request of
\* it is in flight, and no timer is armed.
C6_FailedInitializeNeverReady ==
  InitializeFailed =>
    /\ \A i \in insts : nReady[i] = 0
    /\ access_token = Absent
    /\ \A c \in Calls : fired[c] = 0
    /\ \A c \in 1..nCalls : \E i \in insts : \E k \in 1..Len(listeners[i]) :
         listeners[i][k].call = c
    /\ requests = {}
    /\ timers = {}

\* C6 witness: the grant exchange failed and two calls are waiting.
C6_Witness ==
  /\ InitializeFailed
  /\ lastAuth = "password"
  /\ nCalls = 2
  /\ Len(listeners["n1"]) = 2

Exchanges(kind) == {id \in 1..nExch : exchanges[id].kind = kind}

\* C7: nothing is retried.  Each call of authenticate issues at most one grant
\* request; each firing of the timer issues exactly one refresh request and
\* uses the timer up; the turn that handles a failed exchange sends nothing
\* and arms nothing; every refresh request and every pending timer stems from
\* an exchange that succeeded; and after a failure, with authenticate called
\* once, no exchange is in flight and no timer is pending.
C7_NoRetry ==
  /\ Cardinality(Exchanges("grant")) <= nAuth
  /\ IsAuthenticate(step) =>
       /\ Cardinality(step.issued) <= 1
       /\ \A q \in step.issued : q.kind = "grant"
  /\ step.op = "timer" =>
       /\ Cardinality(step.issued) = 1
       /\ \A q \in step.issued : q.kind = "refresh"
       /\ \A t \in timers : t.id # step.input.id
  /\ ((Answered(step, "grant") \/ Answered(step, "refresh")) /\ ~Succeeded(step)) =>
       /\ step.issued = {}
       /\ step.armed = {}
  /\ Cardinality(Exchanges("refresh")) + Cardinality(timers)
       <= Cardinality({id \in 1..nExch : exchanges[id].outcome = "ok"})
  /\ (nAuth = 1 /\ \E id \in 1..nExch : exchanges[id].outcome = "failed") =>
       /\ timers = {}
       /\ \A q \in requests : q.kind = "api"

\* C7 witness: a refresh exchange has failed; nothing is in flight or armed.
C7_Witness ==
  /\ nAuth = 1
  /\ Answered(step, "refresh") /\ ~Succeeded(step)
  /\ nExch = 2
  /\ timers = {}

\* The answer to the refresh request was not HTTP 200, or there was none.
RefreshFailed(t) ==
  Answered(t, "refresh") /\ (t.input.err \/ t.input.statusCode # 200)

\* C8 (as claimed): a refresh exchange that fails (non-200 or no response)
\* leaves the stored access token as it was and emits exactly one
\* authentication error; a wrapper called afterwards is not deferred.
C8_FailedRefreshReportsOnce ==
  /\ RefreshFailed(step) =>
       /\ access_token = step.before
       /\ Len(step.events) = 1
       /\ step.events[1].message = "Authenticate refresh error"
  /\ (step.op = "call" /\ \E id \in Exchanges("refresh") : exchanges[id].outcome = "failed") =>
       step.deferred = {}

\* C9 (as claimed): a refresh exchange that succeeds replaces the stored
\* access token and, when the response contains expires_in, arms exactly one
\* timer for that many seconds, so that a timer is pending after it.
C9_RefreshRearmsTimer ==
  (Answered(step, "refresh") /\ Succeeded(step)) =>
    /\ access_token = step.input.body.access_token
    /\ step.input.body.expires_in # NoNumber =>
         /\ Cardinality(step.armed) = 1
         /\ \A t \in step.armed :
              t \in timers /\ t.delay = step.input.body.expires_in * 1000

\* C10 (as claimed): after a successful grant exchange the token is stored, a
\* timer for expires_in seconds is armed whenever the response includes
\* expires_in, whatever its value, and none when it does not.
C10_GrantArmsTimer ==
  (Answered(step, "grant") /\ Succeeded(step)) =>
    /\ access_token = step.input.body.access_token
    /\ step.input.body.expires_in # NoNumber =>
         /\ Cardinality(step.armed) = 1
         /\ \A t \in step.armed :
              t \in timers /\ t.delay = step.input.body.expires_in * 1000
    /\ step.input.body.expires_in = NoNumber => step.armed = {}

\* The turns that may write the token: the answer to a grant or a refresh
\* request that succeeded, and authenticate given an access_token.
BearerInitialize(t) == IsAuthenticate(t) /\ AuthKind(t.input) = "bearer"

WritesToken(t) ==
  \/ (Answered(t, "grant") \/ Answered(t, "refresh")) /\ Succeeded(t)
  \/ BearerInitialize(t)

\* C11: token presence is monotone.  The access token is absent until a grant
\* exchange succeeds or authenticate is given a bearer token; once present it
\* is present in every later state; and its value changes only in the turn of
\* a successful exchange or of a bearer-token authenticate, so failed
\* exchanges, timer firings and wrapper calls leave it as it was.
C11_TokenPresenceMonotone ==
  [][/\ access_token # Absent => access_token' # Absent
     /\ access_token' # access_token => WritesToken(step')
     /\ (Answered(step', "grant") \/ Answered(step', "refresh")) /\ ~Succeeded(step')
          => access_token' = access_token]_vars

\* C11 witness: a refresh exchange failed and the token obtained earlier is
\* still stored.
C11_Witness ==
  /\ Answered(step, "refresh") /\ ~Succeeded(step)
  /\ access_token # Absent
  /\ access_token = step.before

\* Every call of authenticate so far was given a bearer token or was turned
\* down before line 94: no grant request has ever been issued.
BearerOnly == lastAuth = "bearer" /\ nExch = 0

\* C12: authenticate given an access_token stores it at once, issues no grant
\* request and arms no timer; and while no password grant has been started,
\* the stored token is the bearer token, no exchange is in flight, no timer is
\* pending (so no refresh can happen for that token), and a wrapper called
\* now runs past the gate without being deferred.
C12_BearerTokenNoExchange ==
  [][/\ BearerInitialize(step') =>
          /\ access_token' = step'.input.access_token
          /\ step'.issued = {} /\ step'.armed = {}
          /\ requests' = requests /\ timers' = timers /\ exchanges' = exchanges
     /\ BearerOnly' =>
          /\ access_token' \in BearerTokens
          /\ timers' = {}
          /\ \A q \in requests' : q.kind = "api"
          /\ step'.op = "call" =>
               /\ step'.deferred = {}
               /\ fired'[step'.input.call] = 1]_vars

\* C12 witness: constructed with a bearer token, then a wrapper was called
\* and its request is in flight.
C12_Witness ==
  /\ BearerOnly
  /\ nAuth = 1
  /\ step.op = "call"
  /\ step.deferred = {}
  /\ \E q \in step.issued : q.form.access_token \in BearerTokens

\* C13 (as claimed): in every state in which the token is present, every call
\* made so far has run past the token gate: whichever way the token became
\* present, the calls deferred until then were replayed.
C13_NoCallPendingWithToken ==
  access_token # Absent => \A c \in 1..nCalls : fired[c] >= 1

\* The lifetime, in milliseconds, that the response handled in a turn states
\* for the token it carries.
Lifetime(t) == t.input.body.expires_in * 1000

\* C14 (as claimed): the refresh exchange for a token starts before the token
\* expires.  A timer runs authenticate_refresh no earlier than its delay, so
\* the refresh request is issued before the lifetime has passed only if the
\* timer a response arms has a delay strictly shorter than that lifetime.
C14_RefreshBeforeExpiry ==
  \A t \in step.armed : t.delay < Lifetime(step)

\* Two clients constructed in one process: the module variables of lines 8-14
\* exist once, whatever the number of instances.
InitTwo ==
  /\ access_token = Absent
  /\ username = Absent
  /\ password = Absent
  /\ client_id = Absent
  /\ client_secret = Absent
  /\ scope = Absent
  /\ expires_in = NoNumber
  /\ insts = Instances
  /\ constructed = {}
  /\ listeners = [i \in insts |-> << >>]
  /\ requests = {}
  /\ timers = {}
  /\ step = Turn("require", Absent, NoArgs, << >>, {}, {}, {}, FALSE, {})
  /\ fired = [c \in Calls |-> 0]
  /\ nCalls = 0
  /\ nAuth = 0
  /\ lastAuth = "none"
  /\ exchanges = << >>
  /\ nReady = [i \in insts |-> 0]

SpecTwo == InitTwo /\ [][Next]_vars

\* C15 (as claimed): token state is private to each instance.  A turn of one
\* instance (authenticate, the answer to its grant or refresh request, a
\* failure) leaves the token that every other constructed instance reads,
\* attaches to its requests and tests at its gate as it was.
C15_TokenPrivatePerInstance ==
  [][\A j \in constructed : j # step'.inst => access_token' = access_token]_vars

\* The turn was a call of an endpoint wrapper or the answer to its request.
IsWrapperTurn(t) == t.op \in {"call", "api"}

\* C16: only the exchanges and a bearer-token authenticate write the token.
\* The turn of a wrapper call (deferred, rejected for its options or
\* dispatched) and the turn that handles the answer to an endpoint request
\* (data, failure or no response) end with the access token they started
\* with; a turn that ends with another token is one that completes an
\* exchange or stores a bearer token.
C16_WrappersLeaveTokenAlone ==
  /\ IsWrapperTurn(step) => access_token = step.before
  /\ access_token # step.before => WritesToken(step)

\* C16 witness: an endpoint request was turned down and the token it carried
\* is still stored.
C16_Witness ==
  /\ step.op = "api"
  /\ IsError(step.input)
  /\ access_token # Absent
  /\ access_token = step.before

\* The grant exchange was unsuccessful: no response, a status other than 200,
\* or a body that is not the JSON of a token.
GrantFailed(t) == Answered(t, "grant") /\ ~Succeeded(t)

\* C17 (as claimed): every unsuccessful grant exchange ends with exactly one
\* authentication error on the 'error' channel, whose message is the error of
\* the JSON envelope, else the status code, else "No response", and the
\* callback of the request never ends in an exception.
C17_FailedGrantReportsOnce ==
  GrantFailed(step) =>
    /\ ~step.thrown
    /\ step.events = <<Event("error", "Authenticate error", ErrorMessage(step.input))>>

\* The channel (event name) on which the failure of a grant exchange answered
\* like this would be reported.
GrantChannel(resp) == handleRequestError(resp, "Authenticate error", TRUE)[1].name

\* C18 (as claimed): the error of a failed refresh exchange is emitted on the
\* channel on which the error of a failed grant exchange is emitted.
C18_RefreshErrorOnGrantChannel ==
  (RefreshFailed(step) /\ step.events # << >>) =>
    \A k \in 1..Len(step.events) : step.events[k].name = GrantChannel(step.input)

\* C19 (as claimed): at most one refresh timer is pending at any time, over
\* any sequence of operations, repeated calls of authenticate included.
C19_AtMostOneTimer == Cardinality(timers) <= 1

\* C20 (as claimed): every refresh request carries a refresh_token that is
\* present, also when the response that armed the timer contained expires_in
\* and no refresh_token.
C20_RefreshTokenPresent ==
  step.op = "timer" => \A q \in step.issued : q.form.refresh_token # Absent

\* The access token the server issues in answer to request id (TokenBodies).
TokenOf(id) == "tok" \o ToString(id)

\* The grant exchange started by the latest password-grant authenticate.
LatestGrant == CHOOSE g \in Exchanges("grant") : \A id \in Exchanges("grant") : id <= g

\* C21 (as claimed): once the latest call of authenticate has completed
\* successfully, no earlier exchange overwrites its token.  After a
\* bearer-token authenticate the stored token is the bearer token; after a
\* password grant that succeeded the stored token is not one issued in answer
\* to the grant request of an earlier call of authenticate.
C21_LatestInitializeWins ==
  /\ lastAuth = "bearer" => access_token \in BearerTokens
  /\ (lastAuth = "password" /\ exchanges[LatestGrant].outcome = "ok") =>
        \A id \in Exchanges("grant") : id < LatestGrant => access_token # TokenOf(id)

\* The grant request whose answer the turn handles: the one that leaves the
\* requests in flight.
AnsweredRequests == {r \in requests : r.kind = "grant" /\ r \notin requests'}

====
